---- MODULE Spec2Model ----
(***************************************************************************)
(* Model of the Fio -> Firefly III importer (main.py).                     *)
(*                                                                         *)
(* Three specifications share the operators translated from the source:   *)
(*   SpecClassify  Transaction.from_fio_data on one raw transaction, with  *)
(*                 the two account lookups answered by arbitrary responses *)
(*   SpecErrors    the error triage of store_transactions on one response  *)
(*   Spec          main(), run repeatedly against one bank statement and   *)
(*                 one ledger                                              *)
(*                                                                         *)
(* Python strings whose characters the code inspects (account numbers,     *)
(* IBANs, error messages) are sequences of one-character strings.  Dates   *)
(* are day ordinals (date.toordinal()).                                    *)
(***************************************************************************)
EXTENDS Integers, Sequences, FiniteSets, TLC

\* ------------------------------------------------------------------ bounds
MaxRuns == 2        \* number of consecutive runs of main()
MaxFaults == 1      \* ledger responses that are not the well-behaved one
MaxMsgs == 2        \* messages per field of an error payload
Today == 3010       \* day ordinal of datetime.now()

\* ------------------------------------------------------- program constants
LookbackDays == 3000
OverlapDays == 1

\* ---------------------------------------------------------------- values
None == "None"
NoneChars == <<None>>               \* None where a character string is expected

TransactionType == {"withdrawal", "deposit", "transfer", "reconciliation", "opening balance"}
AccountType == {"asset", "expense", "revenue", "cash"}

Account(id, type) == [id |-> id, type |-> type]
NoAccount == Account(None, None)    \* Optional[Account] = None

\* ------------------------------------------------------------ small helpers
RECURSIVE Replace(_, _)
\* str.replace(old, ""), for a one-character old
Replace(s, old) ==
    IF s = <<>> THEN <<>>
    ELSE IF Head(s) = old THEN Replace(Tail(s), old)
         ELSE <<Head(s)>> \o Replace(Tail(s), old)

Digits == {"0", "1", "2", "3", "4", "5", "6", "7", "8", "9"}

Abs(x) == IF x < 0 THEN -x ELSE x

\* x or "-"   (None and "" are falsy)
OrDash(x) == IF x = None \/ x = "" THEN "-" ELSE x

\* ------------------------------------------------------------ IBAN deriver
\* IBAN.generate("CZ", bank_code, account_code): a ValueError for an account
\* code that is not numeric, else the IBAN (check digits and zero padding are
\* the library's and are left out of the rendering)
IbanGenerate(country, bank_code, account_code) ==
    IF account_code = <<>> \/ \E k \in 1..Len(account_code) : account_code[k] \notin Digits
    THEN [exc |-> "ValueError", value |-> NoneChars]
    ELSE [exc |-> "none", value |-> country \o bank_code \o account_code]

\* --------------------------------------------------------- account resolver
\* A response of the ledger service to GET search/accounts
HtmlBody == [json |-> FALSE, has_data |-> FALSE, data |-> <<>>]
NoDataBody == [json |-> TRUE, has_data |-> FALSE, data |-> <<>>]
DataBody(accounts) == [json |-> TRUE, has_data |-> TRUE, data |-> accounts]

LedgerTypes == AccountType \cup {"liabilities"}

LookupBodies ==
    {HtmlBody, NoDataBody, DataBody(<<>>)}
    \cup {DataBody(<<Account(id, t)>>) : id \in {"7", "8"}, t \in LedgerTypes}

LookupResponses == [status_code : {200, 404, 500}, body : LookupBodies]

\* response.raise_for_status()
RaisesForStatus(response) == response.status_code >= 400

\* find_account_by_iban: exc is the exception that leaves the function,
\* value the returned Optional[Account], requests the requests it sent
FindAccountByIban(iban, response) ==
    IF iban = NoneChars
    THEN [exc |-> "none", value |-> NoAccount, requests |-> 0]
    ELSE IF ~response.body.json
    THEN [exc |-> "JSONDecodeError", value |-> NoAccount, requests |-> 1]
    ELSE IF ~response.body.has_data
    THEN [exc |-> "KeyError", value |-> NoAccount, requests |-> 1]
    ELSE IF response.status_code = 404 \/ Len(response.body.data) = 0
    THEN [exc |-> "none", value |-> NoAccount, requests |-> 1]
    ELSE IF RaisesForStatus(response)
    THEN [exc |-> "HTTPError", value |-> NoAccount, requests |-> 1]
    ELSE IF response.body.data[1].type \notin AccountType
    THEN [exc |-> "ValueError", value |-> NoAccount, requests |-> 1]
    ELSE [exc |-> "none",
          value |-> Account(response.body.data[1].id, response.body.data[1].type),
          requests |-> 1]

\* except (ValueError, AttributeError): json.JSONDecodeError is a ValueError
CaughtByClassifier(exc) == exc \in {"ValueError", "AttributeError", "JSONDecodeError"}

\* ---------------------------------------------------- transaction classifier
\* the try block of from_fio_data: the counterparty lookup
OtherAccountLookup(transaction, response) ==
    IF transaction.account_number = NoneChars
    THEN [exc |-> "none", value |-> NoAccount, requests |-> 0]     \* None.replace
    ELSE
      LET gen == IbanGenerate(<<"C", "Z">>, transaction.bank_code,
                              Replace(transaction.account_number, "-"))
      IN IF gen.exc # "none"
         THEN [exc |-> "none", value |-> NoAccount, requests |-> 0]
         ELSE LET found == FindAccountByIban(gen.value, response)
              IN IF CaughtByClassifier(found.exc)
                 THEN [exc |-> "none", value |-> NoAccount, requests |-> found.requests]
                 ELSE found

TypeOfAnyKnown(other_account_data, amount) ==
    IF other_account_data # NoAccount
    THEN "transfer"
    ELSE IF amount < 0 THEN "withdrawal" ELSE "deposit"

TypeOf(other_account_data, amount) ==
    IF other_account_data # NoAccount /\ other_account_data.type = "asset"
    THEN "transfer"
    ELSE IF amount < 0 THEN "withdrawal" ELSE "deposit"

NoTransaction ==
    [type |-> None, date |-> 0, amount |-> 0, description |-> None, notes |-> None,
     external_id |-> 0, source_id |-> None, destination_id |-> None,
     source_name |-> None, destination_name |-> None]

\* cls(type=..., date=..., ...): the four optional fields default to None
NewTransaction(transaction, type) ==
    [type |-> type,
     date |-> transaction.date,
     amount |-> Abs(transaction.amount),
     description |-> OrDash(transaction.recipient_message),
     notes |-> OrDash(transaction.user_identification),
     external_id |-> transaction.instruction_id,
     source_id |-> None, destination_id |-> None,
     source_name |-> None, destination_name |-> None]

IdOr(account_data, old) == IF account_data # NoAccount THEN account_data.id ELSE old

PopulateWithdrawalNameOnly(result, transaction, account_data, other_account_data) ==
    [result EXCEPT !.destination_name = transaction.account_name,
                   !.source_id = IdOr(account_data, @)]

PopulateWithdrawal(result, transaction, account_data, other_account_data) ==
    [result EXCEPT !.destination_name = transaction.account_name,
                   !.source_id = IdOr(account_data, @),
                   !.destination_id = IdOr(other_account_data, @)]

PopulateDeposit(result, transaction, account_data, other_account_data) ==
    [result EXCEPT !.source_name = transaction.account_name,
                   !.source_id = IdOr(other_account_data, @),
                   !.destination_id = IdOr(account_data, @)]

PopulateTransferReversed(result, transaction, account_data, other_account_data) ==
    IF transaction.amount > 0
    THEN [result EXCEPT !.notes = "-",
                        !.source_id = IdOr(account_data, @),
                        !.destination_id = IdOr(other_account_data, @)]
    ELSE [result EXCEPT !.destination_id = IdOr(account_data, @),
                        !.source_id = IdOr(other_account_data, @)]

PopulateTransfer(result, transaction, account_data, other_account_data) ==
    IF transaction.amount > 0
    THEN [result EXCEPT !.destination_id = IdOr(account_data, @),
                        !.source_id = IdOr(other_account_data, @)]
    ELSE [result EXCEPT !.notes = "-",
                        !.source_id = IdOr(account_data, @),
                        !.destination_id = IdOr(other_account_data, @)]

Populate(result, transaction, account_data, other_account_data) ==
    IF result.type = "withdrawal"
    THEN PopulateWithdrawal(result, transaction, account_data, other_account_data)
    ELSE IF result.type = "deposit"
    THEN PopulateDeposit(result, transaction, account_data, other_account_data)
    ELSE IF result.type = "transfer"
    THEN PopulateTransfer(result, transaction, account_data, other_account_data)
    ELSE result

\* Transaction.from_fio_data(account, transaction, firefly_client), the two
\* lookups answered by other_response and own_response
FromFioData(account, transaction, other_response, own_response) ==
    LET other == OtherAccountLookup(transaction, other_response)
        own == FindAccountByIban(account.iban, own_response)
    IN IF other.exc # "none"
       THEN [exc |-> other.exc, result |-> NoTransaction,
             other_account_data |-> NoAccount, account_data |-> NoAccount,
             requests |-> other.requests]
       ELSE IF own.exc # "none"
       THEN [exc |-> own.exc, result |-> NoTransaction,
             other_account_data |-> other.value, account_data |-> NoAccount,
             requests |-> other.requests + own.requests]
       ELSE [exc |-> "none",
             result |-> Populate(NewTransaction(transaction,
                                                TypeOf(other.value, transaction.amount)),
                                 transaction, own.value, other.value),
             other_account_data |-> other.value, account_data |-> own.value,
             requests |-> other.requests + own.requests]

\* ------------------------------------------------------------ import writer
\* str.lower() on the letters of the word
Lower(c) ==
    CASE c = "D" -> "d" [] c = "U" -> "u" [] c = "P" -> "p" [] c = "L" -> "l"
      [] c = "I" -> "i" [] c = "C" -> "c" [] c = "A" -> "a" [] c = "T" -> "t"
      [] c = "E" -> "e" [] OTHER -> c

LowerStr(s) == [k \in 1..Len(s) |-> Lower(s[k])]

StartsWith(s, prefix) ==
    /\ Len(s) >= Len(prefix)
    /\ \A k \in 1..Len(prefix) : s[k] = prefix[k]

DuplicateWord == <<"d", "u", "p", "l", "i", "c", "a", "t", "e">>

IsDuplicateMessageCaseSensitive(error) == StartsWith(error, DuplicateWord)

\* error.lower().startswith("duplicate")
IsDuplicateMessage(error) == StartsWith(LowerStr(error), DuplicateWord)

RECURSIVE Flatten(_)
\* flatten(result["errors"].values()): errors is the mapping in insertion
\* order, a sequence of [field, messages]
Flatten(errors) ==
    IF errors = <<>> THEN <<>> ELSE Head(errors).messages \o Flatten(Tail(errors))

\* all(... for error in flatten(...))
AllDuplicates(errors) ==
    \A k \in 1..Len(Flatten(errors)) : IsDuplicateMessage(Flatten(errors)[k])

\* A response of the ledger service to POST transactions
PostBody(json, has_errors, errors) ==
    [json |-> json, has_errors |-> has_errors, errors |-> errors]

StoreResponseNoTolerance(response) ==
    IF ~RaisesForStatus(response) THEN "created"
    ELSE IF ~response.body.json THEN "JSONDecodeError"
    ELSE IF ~response.body.has_errors THEN "KeyError"
    ELSE "HTTPError"

\* the try/except of store_transactions on one response: "created" and
\* "ignored" let the loop continue, anything else is the exception that
\* leaves store_transactions
StoreResponse(response) ==
    IF ~RaisesForStatus(response) THEN "created"
    ELSE IF ~response.body.json THEN "JSONDecodeError"
    ELSE IF ~response.body.has_errors THEN "KeyError"
    ELSE IF AllDuplicates(response.body.errors) THEN "ignored"
    ELSE "HTTPError"

Continues(outcome) == outcome \in {"created", "ignored"}

\* error payloads
MsgDuplicateOf == <<"D", "u", "p", "l", "i", "c", "a", "t", "e", " ", "o", "f", " ", "#", "5">>
MsgUpper == <<"D", "U", "P", "L", "I", "C", "A", "T", "E">>
MsgInvalid == <<"I", "n", "v", "a", "l", "i", "d">>
MsgShort == <<"d", "u", "p">>
Messages == {MsgDuplicateOf, MsgUpper, MsgInvalid, MsgShort}

MessageLists == UNION {[1..n -> Messages] : n \in 0..MaxMsgs}

ErrorMappings ==
    {<<>>}
    \cup {<<[field |-> f, messages |-> m]>> : f \in {"amount", "date"}, m \in MessageLists}
    \cup {<<[field |-> f, messages |-> m], [field |-> g, messages |-> n]>> :
            <<f, g>> \in {<<"amount", "date">>, <<"date", "amount">>},
            <<m, n>> \in MessageLists \X MessageLists}

PostBodies ==
    {PostBody(FALSE, FALSE, <<>>), PostBody(TRUE, FALSE, <<>>)}
    \cup {PostBody(TRUE, TRUE, e) : e \in ErrorMappings}

PostResponses == [status_code : {200, 422, 500}, body : PostBodies]

\* -------------------------------------------------------- sync window
Date(d) == [day |-> d, time |-> "date"]          \* datetime.date
DateTime(d, t) == [day |-> d, time |-> t]        \* datetime.datetime
NoDate == [day |-> 0, time |-> None]             \* Optional[date] = None

\* datetime.fromisoformat(s).date(): the calendar day as written, the time of
\* day dropped
IsoToDate(iso) == Date(iso.day)

NonTransfersUnfiltered(data) == data

\* [it for it in data if it[...]["type"] != "transfer"]
NonTransfers(data) == SelectSeq(data, LAMBDA it : it.type # "transfer")

ListingBody(json, has_data, data) == [json |-> json, has_data |-> has_data, data |-> data]

\* fetch_last_transaction_date on one response
FetchLastTransactionDate(response) ==
    IF RaisesForStatus(response)
    THEN [exc |-> IF response.body.json THEN "HTTPError" ELSE "JSONDecodeError",
          value |-> NoDate]
    ELSE IF ~response.body.json THEN [exc |-> "JSONDecodeError", value |-> NoDate]
    ELSE IF ~response.body.has_data THEN [exc |-> "KeyError", value |-> NoDate]
    ELSE IF NonTransfers(response.body.data) = <<>>
    THEN [exc |-> "none", value |-> NoDate]
    ELSE [exc |-> "none", value |-> IsoToDate(NonTransfers(response.body.data)[1].date)]

Now == DateTime(Today, "13:30")

\* from_date of fetch_transactions
FromDate(since, to_date) ==
    IF since # NoDate THEN Date(since.day - OverlapDays)
    ELSE DateTime(to_date.day - LookbackDays, to_date.time)

\* client.period(from_date, to_date): the statement lines dated within the
\* two days, in the statement's order
Period(statement, from_date, to_date) ==
    SelectSeq(statement, LAMBDA t : from_date.day <= t.date /\ t.date <= to_date.day)

\* ------------------------------------------------------------------ state
VARIABLES
    c_pc, c_account, c_transaction, c_call,      \* SpecClassify
    e_pc, e_response, e_outcome,                 \* SpecErrors
    pc, run, statement, registry, ledger,        \* Spec: the run and its world
    account_data, last_sync_date, data, from_date, to_date,
    items, transactions, i,                      \* locals of main()
    requests, posted, results, lookup_failed,    \* history of the current run
    faults, crash, outcomes, ledger_at_start     \* history across runs

classifyVars == <<c_pc, c_account, c_transaction, c_call>>
errorVars == <<e_pc, e_response, e_outcome>>
worldVars == <<statement, registry>>
localVars == <<account_data, last_sync_date, data, from_date, to_date, items, transactions, i>>
historyVars == <<requests, posted, results, lookup_failed, faults, crash, outcomes,
                 ledger_at_start>>
mainVars == <<pc, run, ledger, worldVars, localVars, historyVars>>
vars == <<classifyVars, errorVars, mainVars>>

\* ------------------------------------------------------------ the world
BankCode == <<"2", "0", "1", "0">>
OwnIban == <<"C", "Z", "2", "0", "1", "0", "9", "9">>
OwnAccountInfo == [iban |-> OwnIban]             \* fio_client.info()

Raw(id, date, amount, account_number, account_name, recipient_message, user_identification) ==
    [instruction_id |-> id, date |-> date, amount |-> amount, bank_code |-> BankCode,
     account_number |-> account_number, account_name |-> account_name,
     recipient_message |-> recipient_message, user_identification |-> user_identification]

\* every raw transaction from_fio_data is tried on
RawTransactions ==
    {Raw(101, Today - 1, amount, account_number, account_name, rm, ui) :
        amount \in {-500, 0, 500},
        account_number \in {NoneChars, <<"1", "2", "-", "3">>, <<"1", "2", "3">>, <<"x">>},
        account_name \in {None, "ACME Corp"},
        rm \in {None, "", "rent"},
        ui \in {None, "", "vs 42"}}

\* the lines the bank statement is made of
StatementLines ==
    <<Raw(101, Today - 1, -500, <<"1", "2", "-", "3">>, "ACME Corp", None, "vs 42"),
      Raw(102, Today - 4, 200, NoneChars, None, "salary", None),
      Raw(103, Today - 2, -50, <<"x">>, "Shop", "", "")>>

RECURSIVE Arrangements(_)
\* the sequences of n elements of 1..Len(StatementLines)
Arrangements(n) ==
    IF n = 0 THEN {<<>>}
    ELSE {Append(a, k) : a \in Arrangements(n - 1), k \in 1..Len(StatementLines)}

\* the bank statements: some of the lines, each at most once, in any order
Statements ==
    {[k \in 1..Len(a) |-> StatementLines[a[k]]] :
        a \in {b \in UNION {Arrangements(n) : n \in 0..Len(StatementLines)} :
                 \A x, y \in 1..Len(b) : x # y => b[x] # b[y]}}

CounterpartyIban == <<"C", "Z">> \o BankCode \o <<"1", "2", "3">>

OwnRegistered == [iban |-> OwnIban, id |-> "1", type |-> "asset"]

Registries ==
    {<<OwnRegistered>>}
    \cup {<<OwnRegistered, [iban |-> CounterpartyIban, id |-> "2", type |-> t]>> :
            t \in {"asset", "expense"}}

Entry(journal_id, external_id, type, date) ==
    [journal_id |-> journal_id, external_id |-> external_id, type |-> type, date |-> date]

PreExisting ==
    {Entry(1, 900, "transfer", DateTime(Today, "13:30")),
     Entry(2, 101, "withdrawal", DateTime(Today - 1, "09:15"))}

\* the ledger service ---------------------------------------------------
\* GET search/accounts?field=iban&query=iban, answered from the registry
LedgerLookup(reg, iban) ==
    LET hits == SelectSeq(reg, LAMBDA a : a.iban = iban)
    IN [status_code |-> 200,
        body |-> DataBody([k \in 1..Len(hits) |-> Account(hits[k].id, hits[k].type)])]

LookupFaults ==
    {r \in LookupResponses :
        /\ r.status_code # 200
        /\ r.body \in {HtmlBody, NoDataBody, DataBody(<<>>), DataBody(<<Account("7", "asset")>>)}}

More(a, b) ==
    \/ a.date.day > b.date.day
    \/ a.date.day = b.date.day /\ a.journal_id > b.journal_id

RECURSIVE MostRecentFirst(_)
MostRecentFirst(entries) ==
    IF entries = {} THEN <<>>
    ELSE LET top == CHOOSE e \in entries : \A f \in entries \ {e} : More(e, f)
         IN <<top>> \o MostRecentFirst(entries \ {top})

\* GET accounts/{id}/transactions
LedgerListing(entries) ==
    [status_code |-> 200, body |-> ListingBody(TRUE, TRUE, MostRecentFirst(entries))]

ListingFaults ==
    {[status_code |-> 500, body |-> ListingBody(FALSE, FALSE, <<>>)],
     [status_code |-> 500, body |-> ListingBody(TRUE, FALSE, <<>>)],
     [status_code |-> 404, body |-> ListingBody(TRUE, TRUE, <<>>)]}

Known(entries, external_id) == \E e \in entries : e.external_id = external_id

\* POST transactions with error_if_duplicate_hash: a known external_id is
\* rejected with a duplicate message, anything else is created
LedgerPost(entries, t) ==
    IF Known(entries, t.external_id)
    THEN [status_code |-> 422,
          body |-> PostBody(TRUE, TRUE,
                            <<[field |-> "transactions.0.description",
                               messages |-> <<MsgDuplicateOf>>]>>)]
    ELSE [status_code |-> 200, body |-> PostBody(TRUE, FALSE, <<>>)]

NextJournalId(entries) ==
    IF entries = {} THEN 1
    ELSE 1 + CHOOSE n \in {e.journal_id : e \in entries} :
                 \A e \in entries : e.journal_id <= n

Commit(entries, t) ==
    entries \cup {Entry(NextJournalId(entries), t.external_id, t.type,
                        DateTime(t.date, "00:00"))}

PostFaults ==
    {[status_code |-> 500, body |-> PostBody(FALSE, FALSE, <<>>)],
     [status_code |-> 500, body |-> PostBody(TRUE, FALSE, <<>>)],
     [status_code |-> 422, body |-> PostBody(TRUE, TRUE, <<>>)],
     [status_code |-> 422,
      body |-> PostBody(TRUE, TRUE, <<[field |-> "amount", messages |-> <<MsgInvalid>>]>>)],
     [status_code |-> 422,
      body |-> PostBody(TRUE, TRUE, <<[field |-> "amount", messages |-> <<MsgDuplicateOf>>],
                                      [field |-> "date", messages |-> <<MsgInvalid>>]>>)]}

\* the responses the ledger may give: the well-behaved one, or a fault while
\* the budget lasts
Answers(good, bad) == {good} \cup (IF faults < MaxFaults THEN bad ELSE {})

Fault(response, good) == IF response = good THEN 0 ELSE 1

\* ------------------------------------------------------------ initial states
NoCall ==
    [exc |-> "none", result |-> NoTransaction, other_account_data |-> NoAccount,
     account_data |-> NoAccount, requests |-> 0]

NoCrash == [happened |-> FALSE, committed |-> {}, unsubmitted |-> {}]

ClassifyIdle ==
    /\ c_pc = "idle"
    /\ c_account = OwnAccountInfo
    /\ c_transaction = StatementLines[1]
    /\ c_call = NoCall

ErrorsIdle ==
    /\ e_pc = "idle"
    /\ e_response = [status_code |-> 200, body |-> PostBody(TRUE, FALSE, <<>>)]
    /\ e_outcome = None

\* the locals and the history of a run that has not done anything yet
FreshRun ==
    /\ account_data = NoAccount
    /\ last_sync_date = NoDate
    /\ data = <<>>
    /\ from_date = NoDate
    /\ to_date = NoDate
    /\ items = <<>>
    /\ transactions = <<>>
    /\ i = 1
    /\ requests = 0
    /\ posted = <<>>
    /\ results = <<>>
    /\ lookup_failed = FALSE

MainIdle ==
    /\ pc = "idle"
    /\ run = 0
    /\ statement = <<>>
    /\ registry = <<OwnRegistered>>
    /\ ledger = {}
    /\ FreshRun
    /\ faults = 0
    /\ crash = NoCrash
    /\ outcomes = <<>>
    /\ ledger_at_start = {}

\* ------------------------------------------------------------ SpecClassify
InitClassify ==
    /\ c_pc = "ready"
    /\ c_account \in {OwnAccountInfo, [iban |-> NoneChars]}
    /\ c_transaction \in RawTransactions
    /\ c_call = NoCall
    /\ ErrorsIdle
    /\ MainIdle

\* one call of Transaction.from_fio_data
CallFromFioData ==
    /\ c_pc = "ready"
    /\ \E other_response \in LookupResponses, own_response \in LookupResponses :
         /\ c_call' = FromFioData(c_account, c_transaction, other_response, own_response)
         /\ c_pc' = IF c_call'.exc = "none" THEN "returned" ELSE "raised"
    /\ UNCHANGED <<c_account, c_transaction, errorVars, mainVars>>

NextClassify == CallFromFioData

SpecClassify == InitClassify /\ [][NextClassify]_vars

\* -------------------------------------------------------------- SpecErrors
InitErrors ==
    /\ e_pc = "ready"
    /\ e_response \in PostResponses
    /\ e_outcome = None
    /\ ClassifyIdle
    /\ MainIdle

\* the body of the loop of store_transactions on one response
HandleResponse ==
    /\ e_pc = "ready"
    /\ e_outcome' = StoreResponse(e_response)
    /\ e_pc' = IF Continues(e_outcome') THEN "continued" ELSE "raised"
    /\ UNCHANGED <<e_response, classifyVars, mainVars>>

NextErrors == HandleResponse

SpecErrors == InitErrors /\ [][NextErrors]_vars

\* -------------------------------------------------------------------- Spec
Init ==
    /\ pc = "start"
    /\ run = 1
    /\ statement \in Statements
    /\ registry \in Registries
    /\ ledger \in SUBSET PreExisting
    /\ FreshRun
    /\ faults = 0
    /\ crash = NoCrash
    /\ outcomes = <<>>
    /\ ledger_at_start = ledger
    /\ ClassifyIdle
    /\ ErrorsIdle

\* main(), up to sys.exit(1): the own account is looked up
LookupOwnAccount ==
    /\ pc = "start"
    /\ \E response \in Answers(LedgerLookup(registry, OwnAccountInfo.iban), LookupFaults) :
         LET found == FindAccountByIban(OwnAccountInfo.iban, response)
         IN /\ requests' = requests + found.requests
            /\ lookup_failed' = (lookup_failed \/ response.status_code # 200)
            /\ faults' = faults + Fault(response, LedgerLookup(registry, OwnAccountInfo.iban))
            /\ account_data' = found.value
            /\ pc' = IF found.exc # "none" \/ found.value = NoAccount
                     THEN "aborted" ELSE "last_date"
    /\ UNCHANGED <<run, ledger, worldVars, last_sync_date, data, from_date, to_date, items,
                   transactions, i, posted, results, crash, outcomes, ledger_at_start,
                   classifyVars, errorVars>>

\* last_sync_date = fetch_last_transaction_date(firefly_client, account_data.id)
FetchLastDate ==
    /\ pc = "last_date"
    /\ \E response \in Answers(LedgerListing(ledger), ListingFaults) :
         LET last == FetchLastTransactionDate(response)
         IN /\ faults' = faults + Fault(response, LedgerListing(ledger))
            /\ data' = response.body.data
            /\ last_sync_date' = last.value
            /\ pc' = IF last.exc # "none" THEN "aborted" ELSE "fetch"
    /\ UNCHANGED <<run, ledger, worldVars, account_data, from_date, to_date, items,
                   transactions, i, requests, posted, results, lookup_failed, crash,
                   outcomes, ledger_at_start, classifyVars, errorVars>>

\* fetch_transactions(fio_client, last_sync_date)
FetchTransactions ==
    /\ pc = "fetch"
    /\ to_date' = Now
    /\ from_date' = FromDate(last_sync_date, to_date')
    /\ items' = Period(statement, from_date', to_date')
    /\ i' = 1
    /\ pc' = "classify"
    /\ UNCHANGED <<run, ledger, worldVars, account_data, last_sync_date, data, transactions,
                   requests, posted, results, lookup_failed, faults, crash, outcomes,
                   ledger_at_start, classifyVars, errorVars>>

\* the IBAN the counterparty lookup asks the ledger for, None when it asks nothing
OtherIban(transaction) ==
    IF transaction.account_number = NoneChars THEN NoneChars
    ELSE IbanGenerate(<<"C", "Z">>, transaction.bank_code,
                      Replace(transaction.account_number, "-")).value

\* one element of the list comprehension of main(): from_fio_data on items[i]
Classify ==
    /\ pc = "classify"
    /\ i <= Len(items)
    /\ LET other_good == LedgerLookup(registry, OtherIban(items[i]))
           own_good == LedgerLookup(registry, OwnAccountInfo.iban)
       IN \E other_response \in Answers(other_good, LookupFaults),
             own_response \in Answers(own_good, LookupFaults) :
            LET call == FromFioData(OwnAccountInfo, items[i], other_response, own_response)
                other_sent == OtherIban(items[i]) # NoneChars
                own_sent == call.exc = "none" \/ call.requests = (IF other_sent THEN 2 ELSE 1)
            IN /\ other_sent \/ other_response = other_good
               /\ own_sent \/ own_response = own_good
               /\ faults + Fault(other_response, other_good) + Fault(own_response, own_good)
                    <= MaxFaults
               /\ faults' = faults + Fault(other_response, other_good)
                                   + Fault(own_response, own_good)
               /\ requests' = requests + call.requests
               /\ lookup_failed' =
                    (\/ lookup_failed
                     \/ other_sent /\ other_response.status_code # 200
                     \/ own_sent /\ own_response.status_code # 200)
               /\ IF call.exc = "none"
                  THEN /\ transactions' = Append(transactions, call.result)
                       /\ i' = i + 1
                       /\ pc' = pc
                  ELSE /\ pc' = "aborted"
                       /\ UNCHANGED <<transactions, i>>
    /\ UNCHANGED <<run, ledger, worldVars, account_data, last_sync_date, data, from_date,
                   to_date, items, posted, results, crash, outcomes, ledger_at_start,
                   classifyVars, errorVars>>

\* the list is complete: "Fetched N transactions", store_transactions begins
Classified ==
    /\ pc = "classify"
    /\ i > Len(items)
    /\ i' = 1
    /\ pc' = "store"
    /\ UNCHANGED <<run, ledger, worldVars, account_data, last_sync_date, data, from_date,
                   to_date, items, transactions, historyVars, classifyVars, errorVars>>

NextToStoreReversed(list, k) == list[Len(list) + 1 - k]

\* for transaction in transactions: the k-th transaction posted
NextToStore(list, k) == list[k]

ExternalIds(list, from) == {list[k].external_id : k \in from..Len(list)}

\* one iteration of the loop of store_transactions
Store ==
    /\ pc = "store"
    /\ i <= Len(transactions)
    /\ LET transaction == NextToStore(transactions, i)
       IN \E response \in Answers(LedgerPost(ledger, transaction), PostFaults) :
            LET outcome == StoreResponse(response)
            IN /\ faults' = faults + Fault(response, LedgerPost(ledger, transaction))
               /\ posted' = Append(posted, transaction.external_id)
               /\ results' = Append(results, outcome)
               /\ ledger' = IF response.status_code = 200
                            THEN Commit(ledger, transaction) ELSE ledger
               /\ IF Continues(outcome)
                  THEN /\ i' = i + 1
                       /\ pc' = pc
                       /\ crash' = crash
                  ELSE /\ i' = i
                       /\ pc' = "aborted"
                       /\ crash' =
                            [happened |-> TRUE,
                             committed |-> {posted[k] : k \in {j \in 1..Len(posted) :
                                                                 results[j] = "created"}},
                             unsubmitted |-> ExternalIds(transactions, 1) \
                                               {posted[k] : k \in 1..Len(posted)}]
    /\ UNCHANGED <<run, worldVars, account_data, last_sync_date, data, from_date, to_date,
                   items, transactions, requests, lookup_failed, outcomes, ledger_at_start,
                   classifyVars, errorVars>>

\* the loop is over: "Import complete"
Stored ==
    /\ pc = "store"
    /\ i > Len(transactions)
    /\ pc' = "done"
    /\ UNCHANGED <<run, ledger, worldVars, localVars, historyVars, classifyVars, errorVars>>

\* the process is started again against the same bank statement and ledger
NextRun ==
    /\ pc \in {"done", "aborted"}
    /\ run < MaxRuns
    /\ run' = run + 1
    /\ pc' = "start"
    /\ outcomes' = Append(outcomes, pc)
    /\ ledger_at_start' = ledger
    /\ account_data' = NoAccount
    /\ last_sync_date' = NoDate
    /\ data' = <<>>
    /\ from_date' = NoDate
    /\ to_date' = NoDate
    /\ items' = <<>>
    /\ transactions' = <<>>
    /\ i' = 1
    /\ requests' = 0
    /\ posted' = <<>>
    /\ results' = <<>>
    /\ lookup_failed' = FALSE
    /\ UNCHANGED <<ledger, worldVars, faults, crash, classifyVars, errorVars>>

Next ==
    \/ LookupOwnAccount
    \/ FetchLastDate
    \/ FetchTransactions
    \/ Classify
    \/ Classified
    \/ Store
    \/ Stored
    \/ NextRun

Spec == Init /\ [][Next]_vars

\* ================================================================ properties
Returned == c_pc = "returned"
Result == c_call.result
Other == c_call.other_account_data
Own == c_call.account_data
RawAmount == c_transaction.amount

\* C1: from_fio_data assigns exactly one of withdrawal, deposit, transfer:
\* transfer iff the counterparty resolved to an asset account, otherwise
\* withdrawal iff the raw amount is negative, otherwise deposit (zero
\* included); an expense, revenue or cash counterparty is never a transfer.
ClassificationRule ==
    Returned =>
        /\ Result.type \in {"withdrawal", "deposit", "transfer"}
        /\ (Result.type = "transfer") <=> (Other # NoAccount /\ Other.type = "asset")
        /\ (Result.type = "withdrawal") <=>
              (~(Other # NoAccount /\ Other.type = "asset") /\ RawAmount < 0)
        /\ (Result.type = "deposit") <=>
              (~(Other # NoAccount /\ Other.type = "asset") /\ RawAmount >= 0)
        /\ Other.type \in {"expense", "revenue", "cash"} => Result.type # "transfer"

KnownNonAssetClassified ==
    /\ Returned
    /\ Other.type \in {"expense", "revenue", "cash"}
    /\ RawAmount = 0
    /\ Result.type = "deposit"

TransferDirection ==
    /\ RawAmount > 0 => Result.destination_id = Own.id /\ Result.source_id = Other.id
    /\ RawAmount < 0 => Result.source_id = Own.id /\ Result.destination_id = Other.id

\* C2 as stated: every transfer has both source_id and destination_id set to
\* resolved ids and no names, own account the destination for a positive
\* amount and the source for a negative one, for every amount and whether or
\* not the own account resolves.
TransferBothEndsResolved ==
    Returned /\ Result.type = "transfer" =>
        /\ Result.source_id # None
        /\ Result.destination_id # None
        /\ Result.source_name = None
        /\ Result.destination_name = None
        /\ TransferDirection

\* C2 amended: every transfer has no names and carries the counterparty's
\* resolved id on the counterparty side; the own-account side carries the own
\* account's resolved id when the own account resolves and is left absent
\* when it does not; the own account is the destination for a positive amount
\* and the source for a negative one, and one end is the own side and the
\* other the counterparty side for every amount, zero included.
TransferEndsAsResolved ==
    Returned /\ Result.type = "transfer" =>
        /\ Result.source_name = None
        /\ Result.destination_name = None
        /\ Other.id # None
        /\ TransferDirection
        /\ \/ Result.destination_id = Own.id /\ Result.source_id = Other.id
           \/ Result.source_id = Own.id /\ Result.destination_id = Other.id
        /\ Own # NoAccount => Result.source_id # None /\ Result.destination_id # None
        /\ Own = NoAccount =>
              Cardinality({side \in {"source", "destination"} :
                             (IF side = "source" THEN Result.source_id
                              ELSE Result.destination_id) = None}) = 1

TransferWithUnresolvedOwnAccount ==
    /\ Returned
    /\ Result.type = "transfer"
    /\ Own = NoAccount
    /\ RawAmount > 0
    /\ Result.source_id = Other.id
    /\ Result.destination_id = None

\* C3 as stated: in a withdrawal or deposit no side has both its id and its
\* name; the counterparty side carries the resolved id when the counterparty
\* resolved and the display name only when it did not; the own side carries
\* only the own account's id, if present.
NoSideHasIdAndName ==
    Returned /\ Result.type \in {"withdrawal", "deposit"} =>
        /\ ~(Result.source_id # None /\ Result.source_name # None)
        /\ ~(Result.destination_id # None /\ Result.destination_name # None)
        /\ Result.type = "withdrawal" =>
              /\ Result.destination_id = Other.id
              /\ Result.destination_name # None => Other = NoAccount
              /\ Result.source_id = Own.id
              /\ Result.source_name = None
        /\ Result.type = "deposit" =>
              /\ Result.source_id = Other.id
              /\ Result.source_name # None => Other = NoAccount
              /\ Result.destination_id = Own.id
              /\ Result.destination_name = None

\* C3 amended: in a withdrawal or deposit the counterparty side (destination
\* of a withdrawal, source of a deposit) always carries the raw display name
\* and carries in addition the counterparty's resolved id when the
\* counterparty resolved to a ledger account; the own side carries only the
\* own account's resolved id, if present, and never a name.
CounterpartyNameAlwaysIdWhenResolved ==
    Returned /\ Result.type \in {"withdrawal", "deposit"} =>
        /\ Result.type = "withdrawal" =>
              /\ Result.destination_name = c_transaction.account_name
              /\ Result.destination_id = Other.id
              /\ Result.source_id = Own.id
              /\ Result.source_name = None
        /\ Result.type = "deposit" =>
              /\ Result.source_name = c_transaction.account_name
              /\ Result.source_id = Other.id
              /\ Result.destination_id = Own.id
              /\ Result.destination_name = None

WithdrawalToKnownExpenseAccount ==
    /\ Returned
    /\ Result.type = "withdrawal"
    /\ Other.type = "expense"
    /\ Result.destination_id = Other.id
    /\ Result.destination_name = "ACME Corp"

\* the messages of Messages that begin with "duplicate", whatever the case
DuplicatePrefixed == {MsgDuplicateOf, MsgUpper}

ReportedMessages(response) ==
    {response.body.errors[f].messages[k] :
        <<f, k>> \in {<<g, j>> \in (1..Len(response.body.errors)) \X (1..MaxMsgs + 1) :
                        j <= Len(response.body.errors[g].messages)}}

Handled == e_pc # "ready" /\ RaisesForStatus(e_response)

\* C4 as stated: a non-success response is swallowed exactly when the payload
\* reports field-level messages and every one of them begins with
\* "duplicate"; a payload with no message at all is fatal.
SwallowedIffSomeAndAllDuplicate ==
    Handled =>
        (e_pc = "continued") <=>
            /\ e_response.body.json
            /\ e_response.body.has_errors
            /\ ReportedMessages(e_response) # {}
            /\ ReportedMessages(e_response) \subseteq DuplicatePrefixed

\* C4 amended: a non-success response is swallowed exactly when the payload
\* has an errors mapping and every message it reports begins with
\* "duplicate" (case-insensitive), which includes the mapping that reports no
\* message at all; any other payload is fatal.
SwallowedIffAllDuplicate ==
    Handled =>
        /\ (e_pc = "continued") <=>
              /\ e_response.body.json
              /\ e_response.body.has_errors
              /\ ReportedMessages(e_response) \subseteq DuplicatePrefixed
        /\ e_pc = "continued" => e_outcome = "ignored"

EmptyErrorsSwallowed ==
    /\ Handled
    /\ e_response.body.has_errors
    /\ e_response.body.errors = <<>>
    /\ e_outcome = "ignored"

RunEnded == pc \in {"done", "aborted"}

\* C5: with a ledger that answers as LedgerPost does (no fault), a run that
\* follows a completed run over the same bank statement ends without a fatal
\* error, has every submission rejected as a duplicate and swallowed, and
\* leaves the ledger's entries equal to those the previous run left.
SecondRunIdempotent ==
    (RunEnded /\ run > 1 /\ faults = 0 /\ outcomes[run - 1] = "done") =>
        /\ pc = "done"
        /\ ledger = ledger_at_start
        /\ Len(posted) = Len(items)
        /\ \A k \in 1..Len(results) : results[k] = "ignored"

SecondRunAllDuplicates ==
    /\ pc = "done"
    /\ run > 1
    /\ faults = 0
    /\ outcomes[run - 1] = "done"
    /\ Len(posted) = 2
    /\ \E e \in ledger : e \notin PreExisting
    /\ ledger = ledger_at_start

\* C6: within one run the ledger service receives at most one account-lookup
\* request.
AtMostOneLookupRequest == requests <= 1

\* C7: a non-success response to an account lookup always aborts the run.
FailedLookupAborts == lookup_failed => pc = "aborted"

NonTransferDays(entries) == {e.date.day : e \in {f \in entries : f.type # "transfer"}}

WindowComputed == to_date # NoDate

\* C8: once the window is computed, to is the current time; from is the date
\* of the most recent non-transfer entry of the own account's ledger
\* transactions minus one day when there is such an entry, and to minus 3000
\* days when the list is empty or holds only transfers.
SyncWindow ==
    WindowComputed =>
        /\ to_date = DateTime(Today, "13:30")
        /\ data = MostRecentFirst(ledger_at_start)
        /\ IF NonTransferDays(ledger_at_start) = {}
           THEN /\ last_sync_date = NoDate
                /\ from_date = DateTime(Today - 3000, "13:30")
           ELSE /\ \A d \in NonTransferDays(ledger_at_start) : d <= last_sync_date.day
                /\ last_sync_date.day \in NonTransferDays(ledger_at_start)
                /\ from_date = [day |-> last_sync_date.day - 1, time |-> "date"]

WindowBehindNewerTransfer ==
    /\ WindowComputed
    /\ Len(data) = 2
    /\ data[1].type = "transfer"
    /\ data[2].type = "withdrawal"
    /\ from_date = [day |-> data[2].date.day - 1, time |-> "date"]
    /\ from_date.day < data[1].date.day - 1

PositionIn(list, id) == CHOOSE k \in 1..Len(list) : list[k].instruction_id = id

PostedInBankOrder ==
    /\ Len(posted) <= Len(items)
    /\ \A k \in 1..Len(posted) : posted[k] = items[k].instruction_id
    /\ \A j, k \in 1..Len(items) :
          j < k => PositionIn(statement, items[j].instruction_id)
                     < PositionIn(statement, items[k].instruction_id)

\* C9: within a run the transactions are posted one per request in the order
\* of the bank statement; after a fatal error nothing more is posted in that
\* run, and what the ledger holds is never removed.
PostingOrder ==
    /\ []PostedInBankOrder
    /\ [][/\ posted' # posted => (posted' = <<>> \/ Len(posted') = Len(posted) + 1)
          /\ (pc = "aborted" /\ run' = run) => (posted' = posted /\ ledger' = ledger)
          /\ ledger \subseteq ledger']_vars

AbortedAfterCommit ==
    /\ pc = "aborted"
    /\ Len(posted) = 2
    /\ results[1] = "created"
    /\ ~Continues(results[2])
    /\ Len(items) > Len(posted)
    /\ \E e \in ledger : e.external_id = posted[1]

\* C10: when a run aborted on a fatal write error after committing some
\* transactions and a later run completes, every transaction the aborted
\* run fetched is in the ledger exactly once.
RecoveryLosesNothing ==
    (pc = "done" /\ crash.happened /\ crash.committed # {}) =>
        \A id \in crash.committed \cup crash.unsubmitted :
            Cardinality({e \in ledger : e.external_id = id}) = 1

====
